---- MODULE Spec2Model ----
(***************************************************************************)
(* File organizer backend (docker-backend): the path sandbox, the tree     *)
(* snapshotter, the plan store, plan synthesis (external organizer,        *)
(* generative model, heuristic classifier), preview, apply and reset, and  *)
(* the HTTP handlers that drive them.                                      *)
(*                                                                         *)
(* Paths are TLA+ strings.  The string operators below work on them        *)
(* character by character, so normalisation, prefix tests, basename and    *)
(* extension extraction are computed the way node's path module computes   *)
(* them.                                                                   *)
(***************************************************************************)
EXTENDS Integers, Sequences, FiniteSets, TLC

VARIABLES
    disk,         \* the filesystem: absolute path -> entry (file or directory)
    currentPlan,  \* services.ts: let currentPlan
    env,          \* process.env: LLM_BASE_URL / GOOGLE_API_KEY configured or not
    apply,        \* in-flight POST /apply requests: request id -> frame
    resp,         \* the last HTTP response sent
    probe         \* input and result of a single sanitizePath call

vars == <<disk, currentPlan, env, apply, resp, probe>>

----------------------------------------------------------------------------
(* Strings *)

CharAt(s, i) == SubSeq(s, i, i)

\* String.prototype.startsWith
StartsWith(s, pre) == Len(pre) <= Len(s) /\ SubSeq(s, 1, Len(pre)) = pre

\* String.prototype.indexOf for a one-character needle; 0 when absent (JS: -1)
RECURSIVE IndexFrom(_, _, _)
IndexFrom(s, c, i) ==
    IF i > Len(s) THEN 0
    ELSE IF CharAt(s, i) = c THEN i
    ELSE IndexFrom(s, c, i + 1)

IndexOf(s, c) == IndexFrom(s, c, 1)

\* String.prototype.lastIndexOf for a one-character needle; 0 when absent
RECURSIVE LastIndexFrom(_, _, _)
LastIndexFrom(s, c, i) ==
    IF i < 1 THEN 0
    ELSE IF CharAt(s, i) = c THEN i
    ELSE LastIndexFrom(s, c, i - 1)

LastIndexOf(s, c) == LastIndexFrom(s, c, Len(s))

UpperChars == "ABCDEFGHIJKLMNOPQRSTUVWXYZ"
LowerChars == "abcdefghijklmnopqrstuvwxyz"

Uppers == { CharAt(UpperChars, k) : k \in 1..Len(UpperChars) }

LowerChar(c) ==
    IF c \in Uppers THEN CharAt(LowerChars, IndexOf(UpperChars, c)) ELSE c

\* String.prototype.toLowerCase
RECURSIVE toLowerCase(_)
toLowerCase(s) ==
    IF s = "" THEN "" ELSE LowerChar(Head(s)) \o toLowerCase(Tail(s))

\* String.prototype.split('/')
RECURSIVE Split(_)
Split(s) ==
    LET k == IndexOf(s, "/")
    IN  IF k = 0 THEN <<s>>
        ELSE <<SubSeq(s, 1, k - 1)>> \o Split(SubSeq(s, k + 1, Len(s)))

\* The absolute path spelled by a sequence of segments ("/" for none)
RECURSIVE JoinAbs(_)
JoinAbs(segs) ==
    IF segs = <<>> THEN ""
    ELSE "/" \o Head(segs) \o JoinAbs(Tail(segs))

AbsOf(segs) == IF segs = <<>> THEN "/" ELSE JoinAbs(segs)

----------------------------------------------------------------------------
(* node's path module (posix) *)

\* normalisation of the segments of an absolute path: empty and "." segments
\* vanish, ".." removes the segment before it and is dropped at the root
RECURSIVE NormSegs(_, _)
NormSegs(segs, acc) ==
    IF segs = <<>> THEN acc
    ELSE LET h == Head(segs)
         IN  IF h = "" \/ h = "." THEN NormSegs(Tail(segs), acc)
             ELSE IF h = ".."
                  THEN NormSegs(Tail(segs),
                                IF acc = <<>> THEN acc
                                ELSE SubSeq(acc, 1, Len(acc) - 1))
                  ELSE NormSegs(Tail(segs), Append(acc, h))

SegsOf(abs) == NormSegs(Split(abs), <<>>)

\* path.resolve(base, p) for an absolute base
pathResolve(base, p) ==
    IF StartsWith(p, "/") THEN AbsOf(SegsOf(p))
    ELSE AbsOf(SegsOf(base \o "/" \o p))

\* path.posix.join(a, b, c) for an absolute a
pathJoin3(a, b, c) == AbsOf(SegsOf(a \o "/" \o b \o "/" \o c))

\* path.join(dir, entry)
pathJoin(a, b) == AbsOf(SegsOf(a \o "/" \o b))

\* path.dirname of a normalised absolute path
pathDirname(abs) ==
    LET segs == SegsOf(abs)
    IN  IF segs = <<>> THEN "/" ELSE AbsOf(SubSeq(segs, 1, Len(segs) - 1))

\* path.basename of a normalised absolute path
pathBasename(abs) ==
    LET segs == SegsOf(abs)
    IN  IF segs = <<>> THEN "" ELSE segs[Len(segs)]

\* path.extname: from the last "." of the basename, unless that "." is its
\* first character or there is none
pathExtname(abs) ==
    LET b == pathBasename(abs)
        k == LastIndexOf(b, ".")
    IN  IF k <= 1 THEN "" ELSE SubSeq(b, k, Len(b))

\* TRUE iff the normalised path abs is dir or lies below dir
IsWithin(abs, dir) ==
    LET a == SegsOf(abs)
        d == SegsOf(dir)
    IN  Len(d) <= Len(a) /\ SubSeq(a, 1, Len(d)) = d

\* path.relative(from, to) for normalised absolute paths
RECURSIVE CommonLen(_, _)
CommonLen(a, b) ==
    IF a = <<>> \/ b = <<>> \/ Head(a) # Head(b) THEN 0
    ELSE 1 + CommonLen(Tail(a), Tail(b))

RECURSIVE JoinRel(_)
JoinRel(segs) ==
    IF segs = <<>> THEN ""
    ELSE IF Len(segs) = 1 THEN Head(segs)
    ELSE Head(segs) \o "/" \o JoinRel(Tail(segs))

pathRelative(from, to) ==
    LET f == SegsOf(from)
        t == SegsOf(to)
        c == CommonLen(f, t)
        ups == [i \in 1..(Len(f) - c) |-> ".."]
    IN  JoinRel(ups \o SubSeq(t, c + 1, Len(t)))

----------------------------------------------------------------------------
(* Path Sandbox *)

\* services.ts:22, with DEMO_FS_PATH set in the environment
DEMO_FS_PATH == "/fs"

PathEscape == "Path escapes demo filesystem"

Ok(v)    == [ok |-> TRUE,  value |-> v,  error |-> ""]
Err(msg) == [ok |-> FALSE, value |-> "", error |-> msg]

\* services.ts sanitizePath: the resolved path, or the thrown error
sanitizePath(rel) ==
    LET safeRoot == pathResolve("/", DEMO_FS_PATH)
        target   == pathResolve(safeRoot, "." \o rel)
    IN  IF ~StartsWith(target, safeRoot) THEN Err(PathEscape)
        ELSE Ok(target)

\* services.ts toRel
toRel(absPath) == "/" \o pathRelative(DEMO_FS_PATH, absPath)

----------------------------------------------------------------------------
(* The filesystem.  disk maps every existing absolute path to its entry;   *)
(* the parent of an existing path exists and is a directory.               *)

NoContent == 0

\* a file's entry: its content (files with equal content hash alike), its
\* size in bytes and its access time in seconds
DirEntry == [type |-> "dir", content |-> NoContent, size |-> 0, atime |-> 0]
FileEntry(c, size, atime) ==
    [type |-> "file", content |-> c, size |-> size, atime |-> atime]

Exists(d, p) == p \in DOMAIN d
IsDir(d, p)  == Exists(d, p) /\ d[p].type = "dir"
IsFile(d, p) == Exists(d, p) /\ d[p].type = "file"

\* p and every ancestor of p, as normalised absolute paths
AncestorsOrSelf(p) ==
    LET segs == SegsOf(p)
    IN  { AbsOf(SubSeq(segs, 1, n)) : n \in 0..Len(segs) }

\* the paths of d that are p or lie below p
Subtree(d, p) == { q \in DOMAIN d : IsWithin(q, p) }

\* d with the given paths removed
Without(d, ps) == [q \in (DOMAIN d) \ ps |-> d[q]]

\* d extended or overwritten by the entries of e
Overlay(d, e) ==
    [q \in (DOMAIN d) \cup (DOMAIN e) |-> IF q \in DOMAIN e THEN e[q] ELSE d[q]]

\* fse.ensureDir (mkdir -p): fails, creating nothing, when a component of
\* dir exists and is not a directory
ensureDir(d, dir) ==
    IF \E q \in AncestorsOrSelf(dir) : IsFile(d, q)
    THEN [ok |-> FALSE, disk |-> d, error |-> "ENOTDIR: not a directory"]
    ELSE [ok |-> TRUE,
          disk |-> Overlay(d, [q \in AncestorsOrSelf(dir) \ DOMAIN d |-> DirEntry]),
          error |-> ""]

\* the path of q after its ancestor-or-self src has been renamed to dest
Rebase(q, src, dest) ==
    LET s == SegsOf(src)
        t == SegsOf(q)
    IN  AbsOf(SegsOf(dest) \o SubSeq(t, Len(s) + 1, Len(t)))

\* fs.rename(src, dest): src and everything below it now lives at dest
rename(d, src, dest) ==
    LET moving == Subtree(d, src)
        rest   == Without(d, moving)
        target == { Rebase(q, src, dest) : q \in moving }
    IN  Overlay(rest,
                [r \in target |->
                    d[CHOOSE q \in moving : Rebase(q, src, dest) = r]])

DestExists  == "dest already exists."
NotFound    == "ENOENT: no such file or directory"
SamePath    == "Source and destination must not be the same."
IntoItself  == "Cannot move to a subdirectory of itself"
OverDir     == "Cannot overwrite directory with non-directory"
OverNonDir  == "Cannot overwrite non-directory with directory"

\* the errors with which fse.move refuses to replace an existing destination
MoveConflictErrors == {DestExists, OverDir, OverNonDir}

\* fse.move with overwrite: true: an existing destination is replaced
moveOverwriting(d, src, dest) ==
    IF ~Exists(d, src)
        THEN {[ok |-> FALSE, disk |-> d, error |-> NotFound]}
    ELSE IF src = dest
        THEN {[ok |-> FALSE, disk |-> d, error |-> SamePath]}
    ELSE IF IsDir(d, src) /\ IsWithin(dest, src)
        THEN {[ok |-> FALSE, disk |-> d, error |-> IntoItself]}
    ELSE {[ok |-> TRUE,
           disk |-> rename(Without(d, Subtree(d, dest)), src, dest),
           error |-> ""]}

\* fse.move(src, dest, {overwrite: false}): the set of possible results.
\* Moving a path onto itself either fails (checkPaths) or succeeds without
\* effect (fs.access), depending on the release of the library.
move(d, src, dest) ==
    IF ~Exists(d, src)
        THEN {[ok |-> FALSE, disk |-> d, error |-> NotFound]}
    ELSE IF src = dest
        THEN {[ok |-> FALSE, disk |-> d, error |-> SamePath],
              [ok |-> TRUE,  disk |-> d, error |-> ""]}
    ELSE IF Exists(d, dest) /\ IsDir(d, src) /\ ~IsDir(d, dest)
        THEN {[ok |-> FALSE, disk |-> d, error |-> OverNonDir]}
    ELSE IF Exists(d, dest) /\ ~IsDir(d, src) /\ IsDir(d, dest)
        THEN {[ok |-> FALSE, disk |-> d, error |-> OverDir]}
    ELSE IF IsDir(d, src) /\ IsWithin(dest, src)
        THEN {[ok |-> FALSE, disk |-> d, error |-> IntoItself]}
    ELSE IF Exists(d, dest)
        THEN {[ok |-> FALSE, disk |-> d, error |-> DestExists]}
    ELSE {[ok |-> TRUE, disk |-> rename(d, src, dest), error |-> ""]}

----------------------------------------------------------------------------
(* Tree Snapshotter *)

NoSize == 0 - 1

\* a set as a sequence, in an arbitrary but fixed order
RECURSIVE SeqOfSet(_)
SeqOfSet(S) ==
    IF S = {} THEN <<>>
    ELSE LET x == CHOOSE y \in S : TRUE
         IN  <<x>> \o SeqOfSet(S \ {x})

\* fse.readdir(dir): the entries of dir in directory-listing order
readdir(d, dir) ==
    SeqOfSet({ q \in DOMAIN d : q # dir /\ pathDirname(q) = dir })

\* String.prototype.slice(1)
slice1(s) == IF s = "" THEN "" ELSE Tail(s)

\* services.ts buildTree, for a path that exists
RECURSIVE buildNode(_, _)
buildNode(d, absPath) ==
    LET isDirectory == d[absPath].type = "dir"
        entries     == readdir(d, absPath)
    IN  [name     |-> pathBasename(absPath),
         path     |-> toRel(absPath),
         type     |-> IF isDirectory THEN "dir" ELSE "file",
         size     |-> IF isDirectory THEN NoSize ELSE d[absPath].size,
         atime    |-> d[absPath].atime,
         ext      |-> IF isDirectory THEN ""
                      ELSE toLowerCase(slice1(pathExtname(absPath))),
         children |-> IF isDirectory
                      THEN [k \in 1..Len(entries) |-> buildNode(d, entries[k])]
                      ELSE <<>>]

\* services.ts buildTree: fse.stat throws for a path that does not exist
buildTree(d, absPath) ==
    IF ~Exists(d, absPath) THEN Err(NotFound)
    ELSE Ok(buildNode(d, absPath))

\* Array.prototype.flatMap: the concatenation of a sequence of sequences
RECURSIVE FlattenSeq(_)
FlattenSeq(ss) ==
    IF ss = <<>> THEN <<>> ELSE Head(ss) \o FlattenSeq(Tail(ss))

\* services.ts flattenFiles: the file leaves, depth first
RECURSIVE flattenFiles(_)
flattenFiles(node) ==
    IF node.type = "file" THEN <<node>>
    ELSE FlattenSeq([k \in 1..Len(node.children) |-> flattenFiles(node.children[k])])

\* services.ts scanDirectory
scanDirectory(d, relativeDir) ==
    LET root == sanitizePath(relativeDir)
    IN  IF ~root.ok THEN root ELSE buildTree(d, root.value)

----------------------------------------------------------------------------
(* Plans and the Plan Store *)

MoveOp(from, to, reason) == [from |-> from, to |-> to, reason |-> reason]

Plan(moves) == [moves |-> moves, deletions |-> <<>>]

EmptyPlan == Plan(<<>>)

----------------------------------------------------------------------------
(* Plan Synthesizer: heuristic classifier *)

\* String.prototype.includes, as the position of the first occurrence of
\* needle in s; 0 when there is none
RECURSIVE IncludesFrom(_, _, _)
IncludesFrom(s, needle, from) ==
    IF from + Len(needle) - 1 > Len(s) THEN 0
    ELSE IF SubSeq(s, from, from + Len(needle) - 1) = needle THEN from
    ELSE IncludesFrom(s, needle, from + 1)

IndexOfSub(s, needle) == IncludesFrom(s, needle, 1)

\* a classifier that sorts by type only when the instructions ask for it
decideCategoryOnRequest(f, instructions) ==
    LET ext  == toLowerCase(f.ext)
        text == toLowerCase(instructions)
    IN  IF IndexOfSub(text, "by type") = 0 THEN "Misc"
        ELSE IF ext \in {"ts", "tsx", "js", "jsx", "py", "go", "java", "rb"} THEN "Code"
        ELSE IF ext \in {"md", "txt", "pdf", "doc", "docx"} THEN "Documents"
        ELSE IF ext \in {"png", "jpg", "jpeg", "gif", "webp", "svg"} THEN "Images"
        ELSE IF ext \in {"zip", "tar", "gz", "rar", "7z"} THEN "Archives"
        ELSE IF ext \in {"csv", "json", "xlsx"} THEN "Data"
        ELSE "Misc"

\* services.ts decideCategory; the instructions do not influence the result
\* ("text.includes('by type') || true")
decideCategory(f, instructions) ==
    LET ext == toLowerCase(f.ext)
    IN  IF ext \in {"ts", "tsx", "js", "jsx", "py", "go", "java", "rb"} THEN "Code"
        ELSE IF ext \in {"md", "txt", "pdf", "doc", "docx"} THEN "Documents"
        ELSE IF ext \in {"png", "jpg", "jpeg", "gif", "webp", "svg"} THEN "Images"
        ELSE IF ext \in {"zip", "tar", "gz", "rar", "7z"} THEN "Archives"
        ELSE IF ext \in {"csv", "json", "xlsx"} THEN "Data"
        ELSE "Misc"

\* services.ts createPlanFromInstructions, lines 203-215: the move of one file
heuristicTarget(f, instructions) ==
    pathJoin3("/demo", decideCategory(f, instructions), f.name)

\* a classifier that emits a move for every file, also for one at its target
RECURSIVE heuristicMovesAlways(_, _)
heuristicMovesAlways(files, instructions) ==
    IF files = <<>> THEN <<>>
    ELSE LET f      == Head(files)
             target == heuristicTarget(f, instructions)
         IN  <<MoveOp(f.path, target,
                      "Place in " \o decideCategory(f, instructions)
                          \o " based on extension and instructions")>>
             \o heuristicMovesAlways(Tail(files), instructions)

\* services.ts createPlanFromInstructions, lines 203-215
RECURSIVE heuristicMoves(_, _)
heuristicMoves(files, instructions) ==
    IF files = <<>> THEN <<>>
    ELSE LET f      == Head(files)
             target == heuristicTarget(f, instructions)
             rest   == heuristicMoves(Tail(files), instructions)
         IN  IF f.path # target
             THEN <<MoveOp(f.path, target,
                           "Place in " \o decideCategory(f, instructions)
                               \o " based on extension and instructions")>> \o rest
             ELSE rest

heuristicPlan(files, instructions) == Plan(heuristicMoves(files, instructions))

----------------------------------------------------------------------------
(* Plan Synthesizer: external organizer and generative model (agent.ts) *)

\* String.prototype.indexOf(needle, from); 0 when absent
RECURSIVE IndexOfStr(_, _, _)
IndexOfStr(s, needle, from) ==
    IF from + Len(needle) - 1 > Len(s) THEN 0
    ELSE IF SubSeq(s, from, from + Len(needle) - 1) = needle THEN from
    ELSE IndexOfStr(s, needle, from + 1)

IsSpace(c) == c \in {" ", "\n", "\t", "\r"}

RECURSIVE TrimLeft(_)
TrimLeft(s) ==
    IF s # "" /\ IsSpace(Head(s)) THEN TrimLeft(Tail(s)) ELSE s

RECURSIVE TrimRight(_)
TrimRight(s) ==
    IF s # "" /\ IsSpace(CharAt(s, Len(s)))
    THEN TrimRight(SubSeq(s, 1, Len(s) - 1)) ELSE s

\* the values a JSON document of the model can denote: an object whose
\* "moves" member is absent, a list of well-formed moves, or something else
Json(shape, moves) == [ok |-> TRUE, shape |-> shape, moves |-> moves]
JsonNull == [ok |-> FALSE, shape |-> "null", moves |-> <<>>]

MovesDoc1 == <<MoveOp("/demo/a.md", "/demo/z.md", "r")>>

\* JSON.parse on the documents the model can answer with; every other text
\* is a syntax error
JsonDocs ==
    {[text |-> "{}", json |-> Json("absent", <<>>)],
     [text |-> "{\"moves\":[]}", json |-> Json("moves", <<>>)],
     [text |-> "{\"moves\":[{\"from\":\"/demo/a.md\",\"to\":\"/demo/z.md\",\"reason\":\"r\"}]}",
      json |-> Json("moves", MovesDoc1)],
     [text |-> "{\"moves\":[{\"from\":\"/demo/a.md\"}]}", json |-> Json("invalid", <<>>)],
     [text |-> "{\"moves\":7}", json |-> Json("invalid", <<>>)]}

JsonParse(text) ==
    LET t == TrimRight(TrimLeft(text))
    IN  IF \E doc \in JsonDocs : doc.text = t
        THEN (CHOOSE doc \in JsonDocs : doc.text = t).json
        ELSE JsonNull

\* the code fence of a markdown block; the apostrophe stands for the
\* backquote, which a TLA+ string cannot hold
Fence == "'''"

\* text.match(/<fence>json\s*([\s\S]*?)<fence>/i): the captured group, "" when
\* the text has no such block.  The flag i makes "json" match in any case.
codeBlock(text) ==
    LET open == IndexOfStr(toLowerCase(text), Fence \o "json", 1)
        body == IF open = 0 THEN ""
                ELSE TrimLeft(SubSeq(text, open + 7, Len(text)))
        close == IndexOfStr(body, Fence, 1)
    IN  IF open = 0 \/ close = 0 THEN "" ELSE SubSeq(body, 1, close - 1)

\* agent.ts extractJson: the parsed value or null (ok = FALSE)
extractJson(text) ==
    LET direct     == JsonParse(text)
        block      == codeBlock(text)
        fenced     == JsonParse(block)
        firstCurly == IndexOf(text, "{")
        lastCurly  == LastIndexOf(text, "}")
        sliced     == JsonParse(SubSeq(text, firstCurly, lastCurly))
    IN  IF direct.ok THEN direct
        ELSE IF block # "" /\ fenced.ok THEN fenced
        ELSE IF firstCurly # 0 /\ lastCurly # 0 /\ lastCurly > firstCurly /\ sliced.ok
             THEN sliced
        ELSE JsonNull

\* zod: schema.safeParse(json).success
schemaAccepts(json) == json.shape # "invalid"

\* the result of a tier: a plan, or null
Some(plan) == [some |-> TRUE, plan |-> plan]
NoPlan     == [some |-> FALSE, plan |-> EmptyPlan]

\* agent.ts tryLlmOrganize, lines 208-241: the external organizer.
\* reply.kind is "error" (transport failure, non-OK status, unparsable body)
\* or "ok" with the parsed body's moves (none when the body has no such member).
organizerTier(e, reply) ==
    IF e.llmBase /\ reply.kind = "ok"
    THEN Some(Plan(IF ~reply.hasMoves THEN <<>> ELSE reply.moves))
    ELSE NoPlan

\* agent.ts tryLlmOrganize, lines 242-308: the generative model.
\* reply.kind is "throw" (import or invoke failed) or "text".
modelTier(e, reply) ==
    IF ~e.apiKey THEN NoPlan
    ELSE IF reply.kind = "throw" THEN NoPlan
    ELSE LET json   == extractJson(reply.text)
             parsed == json.ok /\ schemaAccepts(json)
         IN  Some(Plan(IF parsed /\ json.shape = "moves" THEN json.moves ELSE <<>>))

\* agent.ts tryLlmOrganize: a plan, or NoPlan for null
tryLlmOrganize(e, orgReply, modelReply) ==
    LET first == organizerTier(e, orgReply)
    IN  IF first.some THEN first ELSE modelTier(e, modelReply)

\* services.ts createPlanFromInstructions on the snapshot's file list
createPlanFromInstructions(files, instructions, e, orgReply, modelReply) ==
    LET llmPlan == tryLlmOrganize(e, orgReply, modelReply)
    IN  IF llmPlan.some THEN llmPlan.plan
        ELSE heuristicPlan(files, instructions)

----------------------------------------------------------------------------
(* Plan Previewer *)

\* a mapping in which the first move of a `from` wins
mapPathFirst(moves, p) ==
    LET hits  == { k \in 1..Len(moves) : moves[k].from = p }
        first == CHOOSE k \in hits : \A j \in hits : k <= j
    IN  IF hits = {} \/ moves[first].to = "" THEN p ELSE moves[first].to

\* services.ts previewPlan, afterPaths: a later move of the same `from`
\* replaces an earlier one; an empty `to` is falsy and keeps the path
mapPath(moves, p) ==
    LET hits == { k \in 1..Len(moves) : moves[k].from = p }
        last == CHOOSE k \in hits : \A j \in hits : j <= k
    IN  IF hits = {} \/ moves[last].to = "" THEN p ELSE moves[last].to

\* services.ts previewPlan, cloneNode
RECURSIVE cloneNode(_, _)
cloneNode(moves, n) ==
    IF n.type = "dir"
    THEN [n EXCEPT !.children =
            [k \in 1..Len(n.children) |-> cloneNode(moves, n.children[k])]]
    ELSE [n EXCEPT !.path = mapPath(moves, n.path)]

\* services.ts previewPlan: the two views, or the error of the snapshot
previewPlan(d, plan) ==
    LET before == buildTree(d, DEMO_FS_PATH)
    IN  IF ~before.ok THEN before
        ELSE Ok([before |-> before.value,
                 after  |-> cloneNode(plan.moves, before.value)])

----------------------------------------------------------------------------
(* Garbage Detector *)

SecondsPerDay == 86400
MiB == 1048576

\* services.ts detectGarbage, ageDays
ageDays(file, now) ==
    IF file.atime # 0 THEN (now - file.atime) \div SecondsPerDay ELSE 0

\* services.ts detectGarbage, line 136
isJunk(file) ==
    \/ toLowerCase(file.ext) \in {"tmp", "log", "cache", "bak", "old"}
    \/ StartsWith(file.name, "~")
    \/ (Len(file.name) >= 9
        /\ SubSeq(file.name, Len(file.name) - 8, Len(file.name)) = ".DS_Store")

Suggestion(file, rule, confidence, safe, original) ==
    [file |-> file, rule |-> rule, confidence |-> confidence,
     safeToDelete |-> safe, original |-> original]

\* per-file rules in which a file of falsy size is skipped by every rule
RECURSIVE fileSuggestionsSized(_, _)
fileSuggestionsSized(files, now) ==
    IF files = <<>> THEN <<>>
    ELSE LET file == Head(files)
             rest == fileSuggestionsSized(Tail(files), now)
         IN  IF file.size # 0 /\ isJunk(file)
             THEN <<Suggestion(file.path, "junk", "high", TRUE, "")>> \o rest
             ELSE IF file.size # 0 /\ file.size > 50 * MiB /\ ageDays(file, now) > 90
             THEN <<Suggestion(file.path, "large", "medium", FALSE, "")>> \o rest
             ELSE rest

\* services.ts detectGarbage, lines 131-162: the suggestions of the per-file
\* rules, in file order
RECURSIVE fileSuggestions(_, _)
fileSuggestions(files, now) ==
    IF files = <<>> THEN <<>>
    ELSE LET file == Head(files)
             rest == fileSuggestions(Tail(files), now)
         IN  IF isJunk(file)
             THEN <<Suggestion(file.path, "junk", "high", TRUE, "")>> \o rest
             ELSE IF file.size # 0 /\ file.size > 50 * MiB /\ ageDays(file, now) > 90
             THEN <<Suggestion(file.path, "large", "medium", FALSE, "")>> \o rest
             ELSE rest

\* services.ts detectGarbage, lines 157-161: the files that are hashed
isHashed(file) == ~isJunk(file) /\ file.size # 0 /\ file.size < 20 * MiB

\* services.ts detectGarbage, lines 164-175: the duplicates of one file, which
\* is the first of its hash group
RECURSIVE duplicateSuggestions(_, _)
duplicateSuggestions(d, files) ==
    IF files = <<>> THEN <<>>
    ELSE LET first  == Head(files)
             hash(f) == d[sanitizePath(f.path).value].content
             later  == Tail(files)
             group  == SelectSeq(later, LAMBDA f :
                          isHashed(first) /\ isHashed(f) /\ hash(f) = hash(first))
             others == SelectSeq(later, LAMBDA f :
                          ~(isHashed(first) /\ isHashed(f) /\ hash(f) = hash(first)))
         IN  [k \in 1..Len(group) |->
                 Suggestion(group[k].path, "duplicate", "high", TRUE, first.path)]
             \o duplicateSuggestions(d, others)

\* services.ts detectGarbage
detectGarbage(d, now) ==
    LET tree == buildTree(d, DEMO_FS_PATH)
    IN  IF ~tree.ok THEN tree
        ELSE LET allFiles == flattenFiles(tree.value)
             IN  Ok(fileSuggestions(allFiles, now)
                    \o duplicateSuggestions(d, allFiles))

----------------------------------------------------------------------------
(* Plan Applier *)

\* services.ts applyPlan, lines 90-93: one iteration of the loop on disk d.
\* The set of possible results: the disk afterwards and the error thrown.
applyMove(d, m) ==
    LET fromAbs == sanitizePath(m.from)
        toAbs   == sanitizePath(m.to)
        ensured == ensureDir(d, pathDirname(toAbs.value))
    IN  IF ~fromAbs.ok THEN {[ok |-> FALSE, disk |-> d, error |-> fromAbs.error]}
        ELSE IF ~toAbs.ok THEN {[ok |-> FALSE, disk |-> d, error |-> toAbs.error]}
        ELSE IF ~ensured.ok THEN {ensured}
        ELSE move(ensured.disk, fromAbs.value, toAbs.value)

----------------------------------------------------------------------------
(* Reset and startup *)

\* src/filesystem_template: the tree copied into the sandbox root
Template ==
    [q \in {"/demo", "/demo/a.md", "/demo/b.ts"} |->
        CASE q = "/demo"      -> DirEntry
          [] q = "/demo/a.md" -> FileEntry(1, 10, 1)
          [] q = "/demo/b.ts" -> FileEntry(2, 20, 1)]

\* fse.copy(template, DEMO_FS_PATH, {overwrite: true})
copyTemplate(d) ==
    Overlay(d, [q \in { pathJoin(DEMO_FS_PATH, r) : r \in DOMAIN Template } |->
                   Template[CHOOSE r \in DOMAIN Template :
                                pathJoin(DEMO_FS_PATH, r) = q]])

\* a reset that copies the template over the sandbox without emptying it
resetKeepingFiles(d) == copyTemplate(ensureDir(d, DEMO_FS_PATH).disk)

\* services.ts resetDemoFs when fse.copy throws because the template cannot
\* be read: the sandbox has been emptied and nothing has been copied
resetInterrupted(d) ==
    ensureDir(Without(d, Subtree(d, DEMO_FS_PATH)), DEMO_FS_PATH).disk

\* services.ts resetDemoFs
resetDemoFs(d) ==
    LET removed == Without(d, Subtree(d, DEMO_FS_PATH))
        ensured == ensureDir(removed, DEMO_FS_PATH)
    IN  copyTemplate(ensured.disk)

\* setupDemoFs.ts ensureDemoFilesystem
ensureDemoFilesystem(d) ==
    LET ensured    == ensureDir(d, DEMO_FS_PATH).disk
        hasContent == readdir(ensured, DEMO_FS_PATH) # <<>>
    IN  IF ~hasContent THEN copyTemplate(ensured) ELSE ensured

----------------------------------------------------------------------------
(* Inputs and bounds *)

\* longest plan an external organizer answers with
MaxMoves == 2

\* longest client path probed against the sandbox, in segments
MaxSegs == 3

ApplyIds == {1}

\* files that may be in the sandbox when the server starts
FileSlots ==
    {"/fs/report.pdf", "/fs/demo/sub/report.pdf"}

SlotEntry(q) ==
    CASE q = "/fs/report.pdf"          -> FileEntry(3, 30, 1)
      [] q = "/fs/demo/sub/report.pdf" -> FileEntry(3, 30, 1)

\* what lies outside the sandbox root
OutsideDisk ==
    [q \in {"/", "/fs2", "/fs2/s.md"} |->
        IF q = "/fs2/s.md" THEN FileEntry(5, 50, 1) ELSE DirEntry]

\* the disk holding the slots S before the server starts
StartDisk(S) ==
    LET dirs == UNION { AncestorsOrSelf(pathDirname(q)) : q \in S }
    IN  Overlay(Overlay(OutsideDisk, [q \in dirs |-> DirEntry]),
                [q \in S |-> SlotEntry(q)])

\* moves an external organizer may answer with
MovePool ==
    {MoveOp("/demo/a.md", "/demo/z.md", "r"),
     MoveOp("/demo/z.md", "/../fs2/s.md", "r"),
     MoveOp("/demo/a.md", "/../fs2/n/a.md", "r")}

PlansUpTo(n) == UNION { [1..k -> MovePool] : k \in 0..n }

Reply(kind, hasMoves, moves, text) ==
    [kind |-> kind, hasMoves |-> hasMoves, moves |-> moves, text |-> text]

\* no call was made
NoReply == Reply("none", FALSE, <<>>, "")

OrganizerReplies ==
    {Reply("error", FALSE, <<>>, ""), Reply("ok", FALSE, <<>>, "")}
    \cup { Reply("ok", TRUE, ms, "") : ms \in PlansUpTo(MaxMoves) }

\* answers of the generative model that are no JSON at all
UnparsableTexts == {"sorry", "{oops}"}

\* answers that are JSON of the wrong shape
InvalidTexts == {"{\"moves\":7}", "Here: {\"moves\":[{\"from\":\"/demo/a.md\"}]}"}

\* answers that carry a well-formed document
ValidTexts ==
    {"{}", " {\"moves\":[]}\n",
     "Plan:\n'''JSON\n{\"moves\":[{\"from\":\"/demo/a.md\",\"to\":\"/demo/z.md\",\"reason\":\"r\"}]}\n'''",
     "ok {\"moves\":[{\"from\":\"/demo/a.md\",\"to\":\"/demo/z.md\",\"reason\":\"r\"}]} done"}

ModelReplies ==
    {Reply("throw", FALSE, <<>>, "")}
    \cup { Reply("text", FALSE, <<>>, t) :
             t \in UnparsableTexts \cup InvalidTexts \cup ValidTexts }

\* the configurations the server is started with
Envs ==
    {[llmBase |-> FALSE, apiKey |-> FALSE],
     [llmBase |-> FALSE, apiKey |-> TRUE],
     [llmBase |-> TRUE,  apiKey |-> TRUE]}

Instructions == {"", "by type"}

ScanDirs == {"/../fs2"}

BrowseParams == {""}

Nows == {100 * SecondsPerDay}

\* client paths probed against the sandbox
SegNames == {"..", ".", "demo", "fs", "fs2"}

RECURSIVE JoinSegs(_)
JoinSegs(segs) ==
    IF segs = <<>> THEN "" ELSE "/" \o Head(segs) \o JoinSegs(Tail(segs))

RelPaths ==
    LET seqs == UNION { [1..k -> SegNames] : k \in 0..MaxSegs }
    IN  { JoinSegs(q) : q \in seqs } \cup { slice1(JoinSegs(q)) : q \in seqs }

----------------------------------------------------------------------------
(* State *)

\* the frame of an apply request: its position, the plan it read, the loop
\* index and counter of applyPlan, the disk it started from and the plan its
\* handler replaced by the empty plan
IdleFrame ==
    [pc |-> "idle", plan |-> EmptyPlan, i |-> 1, moved |-> 0, disk0 |-> OutsideDisk,
     replaced |-> EmptyPlan]

\* the frame of a request that has been answered is dropped when the next
\* request arrives
Idle == [a \in ApplyIds |-> IdleFrame]

NoBody == [none |-> TRUE]

NoIo == [org |-> NoReply, model |-> NoReply]

NoResp == [kind |-> "none", ok |-> TRUE, error |-> "", body |-> NoBody, io |-> NoIo]

\* res.json({ok: true, ...body})
Response(kind, body) ==
    [kind |-> kind, ok |-> TRUE, error |-> "", body |-> body, io |-> NoIo]

\* res.status(500).json({ok: false, error: e.message})
Failure(kind, error) ==
    [kind |-> kind, ok |-> FALSE, error |-> error, body |-> NoBody, io |-> NoIo]

NoProbe == [rel |-> "", done |-> FALSE, result |-> Err("")]

Init ==
    /\ disk \in { ensureDemoFilesystem(StartDisk(S)) : S \in SUBSET FileSlots }
    /\ currentPlan = EmptyPlan
    /\ env \in Envs
    /\ apply = Idle
    /\ resp = NoResp
    /\ probe = NoProbe

\* a single client issues one request at a time
NoRequestInFlight == \A a \in ApplyIds : apply[a].pc # "moving"

----------------------------------------------------------------------------
(* HTTP handlers (routes.ts) *)

\* POST /scan
Scan(dir) ==
    /\ NoRequestInFlight
    /\ LET tree == scanDirectory(disk, IF dir = "" THEN "/demo" ELSE dir)
       IN  resp' = IF tree.ok THEN Response("scan", [tree |-> tree.value])
                   ELSE Failure("scan", tree.error)
    /\ apply' = Idle
    /\ UNCHANGED <<disk, currentPlan, env, probe>>

\* GET /filesystem/*
Browse(param0) ==
    /\ NoRequestInFlight
    /\ LET tree == scanDirectory(disk, "/" \o (IF param0 = "" THEN "demo" ELSE param0))
       IN  resp' = IF tree.ok THEN Response("browse", [tree |-> tree.value])
                   ELSE Failure("browse", tree.error)
    /\ apply' = Idle
    /\ UNCHANGED <<disk, currentPlan, env, probe>>

\* POST /organize, the handler's body.  orgReply and modelReply are what the
\* external organizer and the generative model answer, NoReply when the call
\* is not made; orgReplies are the answers the organizer may give.
Synthesize(instructions, orgReplies) ==
    LET tree  == buildTree(disk, DEMO_FS_PATH)
        files == IF tree.ok THEN flattenFiles(tree.value) ELSE <<>>
    IN     IF tree.ok
           THEN \E orgReply \in orgReplies \cup {NoReply},
                   modelReply \in ModelReplies \cup {NoReply} :
                  /\ orgReply.kind = "none" <=> ~env.llmBase
                  /\ modelReply.kind = "none"
                        <=> ~(env.apiKey /\ ~organizerTier(env, orgReply).some)
                  /\ LET plan == createPlanFromInstructions(files, instructions,
                                     env, orgReply, modelReply)
                     IN  /\ currentPlan' = plan
                         /\ resp' = [Response("organize", [plan |-> plan])
                                        EXCEPT !.io = [org |-> orgReply,
                                                       model |-> modelReply]]
           ELSE /\ currentPlan' = currentPlan
                /\ resp' = Failure("organize", tree.error)

\* POST /organize
Organize(instructions) ==
    /\ NoRequestInFlight
    /\ Synthesize(instructions, OrganizerReplies)
    /\ apply' = Idle
    /\ UNCHANGED <<disk, env, probe>>

\* a preview that carries the plan's first move out on the disk
PreviewMoving ==
    /\ NoRequestInFlight
    /\ LET plan  == currentPlan
           views == previewPlan(disk, plan)
       IN  /\ resp' = IF views.ok
                      THEN Response("preview", [plan |-> plan, views |-> views.value])
                      ELSE Failure("preview", views.error)
           /\ disk' = IF plan.moves = <<>> THEN disk
                      ELSE (CHOOSE r \in applyMove(disk, plan.moves[1]) : TRUE).disk
    /\ apply' = Idle
    /\ UNCHANGED <<currentPlan, env, probe>>

\* POST /preview
Preview ==
    /\ NoRequestInFlight
    /\ LET plan  == currentPlan
           views == previewPlan(disk, plan)
       IN  resp' = IF views.ok
                   THEN Response("preview", [plan |-> plan, views |-> views.value])
                   ELSE Failure("preview", views.error)
    /\ apply' = Idle
    /\ UNCHANGED <<disk, currentPlan, env, probe>>

\* POST /apply, up to the first await of applyPlan; an empty plan completes
\* without yielding to another request.  frames are the frames of the other
\* requests.
ApplyEnter(a, frames) ==
    LET plan == currentPlan
    IN     IF plan.moves = <<>>
           THEN /\ apply' = [frames EXCEPT ![a] =
                       [pc |-> "done", plan |-> plan, i |-> 1, moved |-> 0,
                        disk0 |-> disk, replaced |-> currentPlan]]
                /\ currentPlan' = EmptyPlan
                /\ resp' = Response("apply", [result |-> [moved |-> 0]])
           ELSE /\ apply' = [frames EXCEPT ![a] =
                       [pc |-> "moving", plan |-> plan, i |-> 1, moved |-> 0,
                        disk0 |-> disk, replaced |-> EmptyPlan]]
                /\ UNCHANGED <<currentPlan, resp>>

\* POST /apply from the single client
ApplyStart(a) ==
    /\ NoRequestInFlight
    /\ ApplyEnter(a, Idle)
    /\ UNCHANGED <<disk, env, probe>>

\* an applier that undoes the completed moves when a move fails
ApplyMoveRollingBack(a) ==
    /\ apply[a].pc = "moving"
    /\ apply[a].i <= Len(apply[a].plan.moves)
    /\ \E r \in applyMove(disk, apply[a].plan.moves[apply[a].i]) :
          IF r.ok
          THEN /\ disk' = r.disk
               /\ apply' = [apply EXCEPT ![a].i = @ + 1, ![a].moved = @ + 1]
               /\ resp' = resp
          ELSE /\ disk' = apply[a].disk0
               /\ apply' = [apply EXCEPT ![a].pc = "failed"]
               /\ resp' = Failure("apply", r.error)
    /\ UNCHANGED <<currentPlan, env, probe>>

\* services.ts applyPlan: one iteration of the loop; an error it throws is
\* caught by the handler, which answers 500
ApplyMove(a) ==
    /\ apply[a].pc = "moving"
    /\ apply[a].i <= Len(apply[a].plan.moves)
    /\ \E r \in applyMove(disk, apply[a].plan.moves[apply[a].i]) :
          /\ disk' = r.disk
          /\ IF r.ok
             THEN /\ apply' = [apply EXCEPT ![a].i = @ + 1, ![a].moved = @ + 1]
                  /\ resp' = resp
             ELSE /\ apply' = [apply EXCEPT ![a].pc = "failed"]
                  /\ resp' = Failure("apply", r.error)
    /\ UNCHANGED <<currentPlan, env, probe>>

\* a handler that answers without clearing the plan
ApplyFinishKeepingPlan(a) ==
    /\ apply[a].pc = "moving"
    /\ apply[a].i > Len(apply[a].plan.moves)
    /\ apply' = [apply EXCEPT ![a].pc = "done"]
    /\ resp' = Response("apply", [result |-> [moved |-> apply[a].moved]])
    /\ UNCHANGED <<disk, currentPlan, env, probe>>

\* POST /apply, after applyPlan has returned
ApplyFinish(a) ==
    /\ apply[a].pc = "moving"
    /\ apply[a].i > Len(apply[a].plan.moves)
    /\ apply' = [apply EXCEPT ![a].pc = "done", ![a].replaced = currentPlan]
    /\ currentPlan' = EmptyPlan
    /\ resp' = Response("apply", [result |-> [moved |-> apply[a].moved]])
    /\ UNCHANGED <<disk, env, probe>>

\* POST /detect-garbage
DetectGarbage(now) ==
    /\ NoRequestInFlight
    /\ LET suggestions == detectGarbage(disk, now)
       IN  resp' = IF suggestions.ok
                   THEN Response("detect-garbage", [suggestions |-> suggestions.value])
                   ELSE Failure("detect-garbage", suggestions.error)
    /\ apply' = Idle
    /\ UNCHANGED <<disk, currentPlan, env, probe>>

\* POST /reset
Reset ==
    /\ NoRequestInFlight
    /\ disk' = resetDemoFs(disk)
    /\ currentPlan' = EmptyPlan
    /\ resp' = Response("reset", NoBody)
    /\ apply' = Idle
    /\ UNCHANGED <<env, probe>>

Next ==
    \/ \E dir \in ScanDirs : Scan(dir)
    \/ \E param0 \in BrowseParams : Browse(param0)
    \/ \E instructions \in Instructions : Organize(instructions)
    \/ Preview
    \/ \E a \in ApplyIds : ApplyStart(a)
    \/ \E a \in ApplyIds : ApplyMove(a)
    \/ \E a \in ApplyIds : ApplyFinish(a)
    \/ \E now \in Nows : DetectGarbage(now)
    \/ Reset

Spec == Init /\ [][Next]_vars

----------------------------------------------------------------------------
(* The path sandbox on its own: one call of sanitizePath per behaviour *)

InitSandbox ==
    /\ disk = ensureDemoFilesystem(StartDisk({}))
    /\ currentPlan = EmptyPlan
    /\ env = [llmBase |-> FALSE, apiKey |-> FALSE]
    /\ apply = Idle
    /\ resp = NoResp
    /\ probe \in { [rel |-> rel, done |-> FALSE, result |-> Err("")] : rel \in RelPaths }

Resolve ==
    /\ ~probe.done
    /\ probe' = [probe EXCEPT !.done = TRUE, !.result = sanitizePath(probe.rel)]
    /\ UNCHANGED <<disk, currentPlan, env, apply, resp>>

NextSandbox == Resolve

SpecSandbox == InitSandbox /\ [][NextSandbox]_vars

----------------------------------------------------------------------------
(* Path Sandbox and confinement *)

\* C1: for every client path whose normalised resolution lies outside the
\* sandbox root (a sibling directory whose name starts with the root's name
\* included) sanitizePath fails with the path-escape error, and for every path
\* whose resolution is the root or below it sanitizePath succeeds and returns
\* a path that is the root or below it.
C1_ResolveContract ==
    probe.done =>
        LET target == pathResolve(DEMO_FS_PATH, "." \o probe.rel)
        IN  IF IsWithin(target, DEMO_FS_PATH)
            THEN probe.result.ok /\ IsWithin(probe.result.value, DEMO_FS_PATH)
            ELSE ~probe.result.ok /\ probe.result.error = PathEscape

\* the part of disk d that is not the sandbox root or below it
OutsidePart(d) ==
    [q \in { p \in DOMAIN d : ~IsWithin(p, DEMO_FS_PATH) } |-> d[q]]

\* C2: after any sequence of scan, organize, preview, apply, detect-garbage
\* and reset requests, with any plan, no file or directory outside the
\* sandbox root has been created, moved, renamed or removed.
C2_Confinement == OutsidePart(disk) = OutsideDisk

----------------------------------------------------------------------------
(* Plan Applier *)

\* the move a frame in its loop is about to execute
CurrentMove(f) == f.plan.moves[f.i]

AtMove(f) == f.pc = "moving" /\ f.i <= Len(f.plan.moves)

\* C3: applyPlan never overwrites.  When the move being executed has a source
\* file and its destination already exists, apply fails with a move-conflict
\* error, and the source file and the entry at the destination are left
\* exactly as they were (same path, same content).
C3_NeverOverwrites ==
    [][\A a \in ApplyIds :
         LET f       == apply[a]
             fromAbs == sanitizePath(CurrentMove(f).from)
             toAbs   == sanitizePath(CurrentMove(f).to)
         IN  (/\ AtMove(f)
              /\ apply' # apply
              /\ fromAbs.ok /\ toAbs.ok
              /\ IsFile(disk, fromAbs.value)
              /\ Exists(disk, toAbs.value)
              /\ fromAbs.value # toAbs.value)
             => /\ apply'[a].pc = "failed"
                /\ resp'.kind = "apply" /\ ~resp'.ok
                /\ resp'.error \in MoveConflictErrors
                /\ Exists(disk', fromAbs.value) /\ Exists(disk', toAbs.value)
                /\ disk'[fromAbs.value] = disk[fromAbs.value]
                /\ disk'[toAbs.value] = disk[toAbs.value]]_vars

\* C3 witness: an apply has just failed with a conflict; the source file and
\* the destination of the failing move are both on the disk
C3_Witness ==
    \E a \in ApplyIds :
        /\ apply[a].pc = "failed"
        /\ resp.kind = "apply" /\ resp.error = DestExists
        /\ IsFile(disk, sanitizePath(CurrentMove(apply[a]).from).value)
        /\ IsFile(disk, sanitizePath(CurrentMove(apply[a]).to).value)

\* C4: when applyPlan fails at move k, the client of POST /apply observes,
\* together with the error, the number k-1 of moves completed before it.
C4_PartialCountObserved ==
    \A a \in ApplyIds :
        (apply[a].pc = "failed" /\ resp.kind = "apply")
            => /\ ~resp.ok /\ resp.error # ""
               /\ resp.body = [result |-> [moved |-> apply[a].i - 1]]

\* the file entries of disk d
FilesOf(d) == [q \in { p \in DOMAIN d : d[p].type = "file" } |-> d[q]]

\* TRUE iff the moves ms all succeed when executed in order from disk d
RECURSIVE AllSucceed(_, _)
AllSucceed(d, ms) ==
    IF ms = <<>> THEN TRUE
    ELSE \E r \in applyMove(d, Head(ms)) : r.ok /\ AllSucceed(r.disk, Tail(ms))

\* the disk after the moves ms have been executed in order from disk d
RECURSIVE AfterMoves(_, _)
AfterMoves(d, ms) ==
    IF ms = <<>> THEN d
    ELSE AfterMoves((CHOOSE r \in applyMove(d, Head(ms)) : r.ok).disk, Tail(ms))

\* C5: applyPlan executes the moves in plan order and is not atomic.  When
\* move k is the first to fail, exactly moves 1..k-1 have taken effect on the
\* disk the apply started from and are not rolled back: the files are where
\* these moves, executed in order, put them; the destination of each of them
\* that none of the later ones moved on is there; and every file that is not
\* a source of one of them is where it was, so none of moves k..n has changed
\* a file's location.
C5_PartialApply ==
    \A a \in ApplyIds :
        apply[a].pc = "failed" =>
            LET f      == apply[a]
                k      == f.i
                done   == SubSeq(f.plan.moves, 1, k - 1)
                src(j) == sanitizePath(done[j].from).value
                dst(j) == sanitizePath(done[j].to).value
            IN  /\ f.moved = k - 1
                /\ AllSucceed(f.disk0, done)
                /\ FilesOf(disk) = FilesOf(AfterMoves(f.disk0, done))
                /\ \A j \in 1..(k - 1) :
                      (\A l \in (j + 1)..(k - 1) : ~IsWithin(dst(j), src(l)))
                          => Exists(disk, dst(j))
                /\ \A q \in DOMAIN f.disk0 :
                      (IsFile(f.disk0, q) /\ \A j \in 1..(k - 1) : ~IsWithin(q, src(j)))
                          => (Exists(disk, q) /\ disk[q] = f.disk0[q])

\* C5 witness: an apply has failed at its second move; the first move has
\* taken effect and is still in effect
C5_Witness ==
    \E a \in ApplyIds :
        /\ apply[a].pc = "failed" /\ apply[a].i = 2
        /\ FilesOf(disk) # FilesOf(apply[a].disk0)
        /\ Exists(disk, sanitizePath(apply[a].plan.moves[1].to).value)

\* C6 as stated: when an apply request has returned, the current plan is the
\* empty plan.
C6_ClearedOnReturn ==
    resp.kind = "apply" => currentPlan = EmptyPlan

\* C6, amended: when an apply request has returned successfully, the current
\* plan is the empty plan {moves: [], deletions: []}.
C6_ClearedOnSuccess ==
    (resp.kind = "apply" /\ resp.ok) => currentPlan = EmptyPlan

\* C6 witness: an apply of a plan with moves has returned successfully
C6_Witness ==
    \E a \in ApplyIds :
        /\ resp.kind = "apply" /\ resp.ok
        /\ apply[a].pc = "done" /\ apply[a].plan.moves # <<>>
        /\ resp.body.result.moved = Len(apply[a].plan.moves)

----------------------------------------------------------------------------
(* Preview and reset *)

\* C7: preview is read-only.  A preview request changes neither the disk nor
\* the current plan, and the snapshot of the sandbox taken right after it is
\* the one taken right before it, which is the `before` view it answers with.
C7_PreviewReadOnly ==
    [][(resp'.kind = "preview" /\ resp' # resp)
         => /\ disk' = disk
            /\ currentPlan' = currentPlan
            /\ buildTree(disk', DEMO_FS_PATH) = buildTree(disk, DEMO_FS_PATH)
            /\ resp'.ok =>
                 resp'.body.views.before = buildTree(disk', DEMO_FS_PATH).value]_vars

\* C7 witness: a preview of a plan that relabels a file has been answered
C7_Witness ==
    /\ resp.kind = "preview" /\ resp.ok
    /\ currentPlan.moves # <<>>
    /\ resp.body.views.after # resp.body.views.before

\* what the sandbox root holds, by sandbox-relative path
SandboxContents(d) ==
    [r \in { toRel(q) : q \in Subtree(d, DEMO_FS_PATH) \ {DEMO_FS_PATH} } |->
        d[pathJoin(DEMO_FS_PATH, r)]]

\* C8: a reset request that returns leaves the sandbox holding exactly the
\* template's file set and the current plan empty.
C8_ResetRestoresTemplate ==
    (resp.kind = "reset" /\ resp.ok)
        => /\ SandboxContents(disk) = Template
           /\ currentPlan = EmptyPlan

\* C8 witness: a reset has returned after an earlier apply had moved a file
C8_Witness ==
    /\ resp.kind = "reset" /\ resp.ok
    /\ Exists(disk, "/fs2/n/a.md")

----------------------------------------------------------------------------
(* Plan synthesis *)

\* the heuristic plan for the sandbox as it is on disk d
HeuristicFor(d) ==
    heuristicPlan(flattenFiles(buildTree(d, DEMO_FS_PATH).value), "")

NoTierConfigured == ~env.llmBase /\ ~env.apiKey

\* C9 as stated: with no external organizer and no model credential, for
\* every sandbox state, synthesizing a plan, applying it and synthesizing
\* again yields a plan with no moves.
C9_Converges ==
    \A a \in ApplyIds :
        (/\ NoTierConfigured
         /\ resp.kind = "apply"
         /\ apply[a].pc \in {"done", "failed"}
         /\ apply[a].plan = HeuristicFor(apply[a].disk0))
            => HeuristicFor(disk).moves = <<>>

\* C9, amended: with no external organizer and no model credential, for every
\* sandbox state, when the apply of the synthesized plan returns successfully,
\* synthesizing again yields a plan with no moves; report.pdf at the sandbox
\* root is then at /demo/Documents/report.pdf below the root.
C9_ConvergesOnSuccess ==
    \A a \in ApplyIds :
        (/\ NoTierConfigured
         /\ resp.kind = "apply" /\ resp.ok
         /\ apply[a].pc = "done"
         /\ apply[a].plan = HeuristicFor(apply[a].disk0))
            => /\ HeuristicFor(disk).moves = <<>>
               /\ IsFile(apply[a].disk0, "/fs/report.pdf")
                    => /\ IsFile(disk, "/fs/demo/Documents/report.pdf")
                       /\ ~Exists(disk, "/fs/report.pdf")

\* C9 witness: the heuristic plan has moved report.pdf from the sandbox root
C9_Witness ==
    \E a \in ApplyIds :
        /\ NoTierConfigured
        /\ resp.kind = "apply" /\ resp.ok /\ apply[a].pc = "done"
        /\ apply[a].plan = HeuristicFor(apply[a].disk0)
        /\ apply[a].plan.moves # <<>>
        /\ IsFile(apply[a].disk0, "/fs/report.pdf")
        /\ IsFile(disk, "/fs/demo/Documents/report.pdf")

\* the generative model was asked and its call failed, or its answer is not
\* JSON, or is JSON of the wrong shape
ModelTierFailed(reply) ==
    \/ reply.kind = "throw"
    \/ reply.kind = "text" /\ reply.text \in UnparsableTexts \cup InvalidTexts

\* C10: when a model credential is configured and the model call fails or its
\* response is unparsable or of the wrong shape, synthesis returns the
\* heuristic plan for the snapshot.
C10_ModelFallsThrough ==
    (/\ resp.kind = "organize" /\ resp.ok
     /\ env.apiKey
     /\ ModelTierFailed(resp.io.model))
        => resp.body.plan = HeuristicFor(disk)

\* the plan of the first tier that succeeds, for the answers the two services
\* gave and the sandbox as it is on disk d
FirstSuccess(e, io, d) ==
    IF e.llmBase /\ io.org.kind = "ok"
    THEN Plan(IF io.org.hasMoves THEN io.org.moves ELSE <<>>)
    ELSE IF e.apiKey /\ io.model.kind = "text" /\ ~ModelTierFailed(io.model)
    THEN LET json == extractJson(io.model.text)
         IN  Plan(IF json.shape = "moves" THEN json.moves ELSE <<>>)
    ELSE HeuristicFor(d)

\* C11: the tiers are tried in order (external organizer, generative model,
\* heuristic) and the first success wins.  A failure of the organizer or of
\* the model call (transport error, non-OK status, parse error) is not
\* surfaced: the organize request answers with the plan of a later tier.
C11_TiersInOrder ==
    (resp.kind = "organize" /\ resp.io # NoIo /\ apply = Idle)
        => /\ resp.ok
           /\ resp.body.plan = FirstSuccess(env, resp.io, disk)

----------------------------------------------------------------------------
(* A sandbox with files of many kinds, served without synthesis services *)

\* access times, in seconds: a file read long ago and one read lately
LongAgo == 1
Lately  == 99 * SecondsPerDay

\* files that may be in the sandbox when the server starts
KindSlots ==
    {"/fs/a/notes.txt", "/fs/a/notes.bak", "/fs/b/copy.txt", "/fs/b/big.log",
     "/fs/big.iso", "/fs/demo/Code/x.ts", "/fs/e.TMP", "/fs/b/y.ts"}

KindEntry(q) ==
    CASE q = "/fs/a/notes.txt"    -> FileEntry(7, 10, Lately)
      [] q = "/fs/a/notes.bak"    -> FileEntry(7, 10, Lately)
      [] q = "/fs/b/copy.txt"     -> FileEntry(7, 10, LongAgo)
      [] q = "/fs/b/big.log"      -> FileEntry(8, 60 * MiB, LongAgo)
      [] q = "/fs/big.iso"        -> FileEntry(8, 60 * MiB, LongAgo)
      [] q = "/fs/demo/Code/x.ts" -> FileEntry(9, 0, Lately)
      [] q = "/fs/e.TMP"          -> FileEntry(9, 0, LongAgo)
      [] q = "/fs/b/y.ts"         -> FileEntry(9, 0, Lately)

\* the disk holding the slots S before the server starts
KindDisk(S) ==
    LET dirs == UNION { AncestorsOrSelf(pathDirname(q)) : q \in S }
    IN  Overlay(Overlay(OutsideDisk, [q \in dirs |-> DirEntry]),
                [q \in S |-> KindEntry(q)])

\* the times at which garbage detection is requested
KindNows == {100 * SecondsPerDay, 200 * SecondsPerDay}

InitKinds ==
    /\ disk \in { ensureDemoFilesystem(KindDisk(S)) : S \in SUBSET KindSlots }
    /\ currentPlan = EmptyPlan
    /\ env = [llmBase |-> FALSE, apiKey |-> FALSE]
    /\ apply = Idle
    /\ resp = NoResp
    /\ probe = NoProbe

NextKinds ==
    \/ \E instructions \in Instructions : Organize(instructions)
    \/ Preview
    \/ \E now \in KindNows : DetectGarbage(now)

SpecKinds == InitKinds /\ [][NextKinds]_vars

----------------------------------------------------------------------------
(* Garbage Detector *)

\* the flattened file list of the sandbox on disk d
SnapshotFiles(d) == flattenFiles(buildTree(d, DEMO_FS_PATH).value)

ContentOf(d, f) == d[pathJoin(DEMO_FS_PATH, f.path)].content

\* the rules of the detector as the specification states them: f is file
\* number i of the flattened list fs
JunkExts == {"tmp", "log", "cache", "bak", "old"}

MatchesRule(d, fs, i, rule, now) ==
    LET f == fs[i]
    IN  CASE rule = "junk"  -> isJunk(f)
          [] rule = "large" -> f.size > 50 * MiB /\ ageDays(f, now) > 90
          [] rule = "duplicate" ->
                /\ f.size < 20 * MiB
                /\ \E j \in 1..(i - 1) :
                      fs[j].size < 20 * MiB /\ ContentOf(d, fs[j]) = ContentOf(d, f)

\* how often file path p is suggested under rule
TimesSuggested(suggestions, p, rule) ==
    Cardinality({ k \in 1..Len(suggestions) :
                    suggestions[k].file = p /\ suggestions[k].rule = rule })

\* C12: the rules are independent and cumulative.  Every file is tested
\* against the junk, stale-large and duplicate rules separately and appears
\* in the suggestion list once for each rule it matches, so a .bak file whose
\* content duplicates an earlier file is listed as junk and as duplicate.
C12_Cumulative ==
    [][\A now \in KindNows :
         (DetectGarbage(now) /\ resp'.ok) =>
            LET fs == SnapshotFiles(disk)
            IN  \A i \in 1..Len(fs), rule \in {"junk", "large", "duplicate"} :
                   TimesSuggested(resp'.body.suggestions, fs[i].path, rule)
                       = IF MatchesRule(disk, fs, i, rule, now) THEN 1 ELSE 0]_vars


\* the first file of the flattened list fs that is below the hashing cutoff
\* and has the content of file number i
FirstOfGroup(d, fs, i) ==
    CHOOSE j \in 1..i :
        /\ fs[j].size < 20 * MiB /\ ContentOf(d, fs[j]) = ContentOf(d, fs[i])
        /\ \A l \in 1..(j - 1) :
              ~(fs[l].size < 20 * MiB /\ ContentOf(d, fs[l]) = ContentOf(d, fs[i]))

\* C13: for every group of two or more files of size < 20 MiB with identical
\* content, every member after the first in flattening order is reported as
\* a high-confidence, safe-to-delete duplicate whose reason names the first
\* member's path, and the first member is not reported as a duplicate.
C13_Duplicates ==
    (resp.kind = "detect-garbage" /\ resp.ok /\ apply = Idle) =>
        LET fs == SnapshotFiles(disk)
            s  == resp.body.suggestions
        IN  \A i \in 1..Len(fs) :
               IF fs[i].size < 20 * MiB /\ FirstOfGroup(disk, fs, i) < i
               THEN \E k \in 1..Len(s) :
                       s[k] = Suggestion(fs[i].path, "duplicate", "high", TRUE,
                                         fs[FirstOfGroup(disk, fs, i)].path)
               ELSE TimesSuggested(s, fs[i].path, "duplicate") = 0


\* C14: every file whose extension is one of tmp, log, cache, bak, old yields
\* a suggestion with confidence high and safeToDelete true, whatever the
\* file's age or size.
C14_JunkRule ==
    (resp.kind = "detect-garbage" /\ resp.ok /\ apply = Idle) =>
        LET fs == SnapshotFiles(disk)
            s  == resp.body.suggestions
        IN  \A i \in 1..Len(fs) :
               toLowerCase(slice1(pathExtname(fs[i].name))) \in JunkExts
                   => \E k \in 1..Len(s) :
                         /\ s[k].file = fs[i].path
                         /\ s[k].confidence = "high"
                         /\ s[k].safeToDelete

\* C14 witness: detection has answered for a sandbox holding an empty junk
\* file, a large junk file read long ago and a small one read lately
C14_Witness ==
    /\ resp.kind = "detect-garbage" /\ resp.ok
    /\ IsFile(disk, "/fs/e.TMP") /\ disk["/fs/e.TMP"].size = 0
    /\ IsFile(disk, "/fs/b/big.log") /\ disk["/fs/b/big.log"].size > 50 * MiB
    /\ IsFile(disk, "/fs/a/notes.bak") /\ disk["/fs/a/notes.bak"].atime = Lately
    /\ Len(resp.body.suggestions) >= 3

----------------------------------------------------------------------------
(* Conservation of files *)

\* the files of disk d that are in the sandbox and have content c
SandboxFilesWith(d, c) ==
    { q \in Subtree(d, DEMO_FS_PATH) : d[q].type = "file" /\ d[q].content = c }

ContentsOn(d) == { d[q].content : q \in { p \in DOMAIN d : d[p].type = "file" } }

\* C15: the engine never deletes.  Across scan, organize, preview, apply and
\* detect-garbage requests, successful or failed, every file of the sandbox
\* still exists in the sandbox with the same content; only its path may have
\* changed.
C15_NeverDeletes ==
    [][Reset \/ \A c \in ContentsOn(disk) \cup ContentsOn(disk') :
                   Cardinality(SandboxFilesWith(disk', c))
                       = Cardinality(SandboxFilesWith(disk, c))]_vars

----------------------------------------------------------------------------
(* Several clients: requests that overlap in time.  A handler runs until   *)
(* it awaits; the steps of the apply loop of one request interleave with   *)
(* the steps of other requests.                                            *)

\* the apply requests that may be in flight together
Requests == {1, 2}

\* plans the external organizer answers with while clients overlap
OverlapPlans ==
    {<<MoveOp("/demo/a.md", "/demo/z.md", "r"), MoveOp("/demo/b.ts", "/demo/y.ts", "r")>>,
     <<MoveOp("/demo/z.md", "/demo/a.md", "r")>>}

OverlapReplies == { Reply("ok", TRUE, ms, "") : ms \in OverlapPlans }

\* the frames of the requests in flight; the frame of a request that has
\* been answered is dropped when the next request arrives
InFlight ==
    [a \in Requests |-> IF apply[a].pc = "moving" THEN apply[a] ELSE IdleFrame]

InitOverlap ==
    /\ disk = ensureDemoFilesystem(StartDisk({}))
    /\ currentPlan = EmptyPlan
    /\ env = [llmBase |-> TRUE, apiKey |-> FALSE]
    /\ apply = [a \in Requests |-> IdleFrame]
    /\ resp = NoResp
    /\ probe = NoProbe

\* POST /organize while other requests are in flight.  The plan is stored in
\* the step that takes the snapshot.
OrganizeOverlapping(instructions) ==
    /\ Synthesize(instructions, OverlapReplies)
    /\ apply' = InFlight
    /\ UNCHANGED <<disk, env, probe>>

\* POST /apply while other requests are in flight
ApplyOverlapping(a) ==
    /\ apply[a].pc # "moving"
    /\ ApplyEnter(a, InFlight)
    /\ UNCHANGED <<disk, env, probe>>

NextOverlap ==
    \/ \E instructions \in Instructions : OrganizeOverlapping(instructions)
    \/ \E a \in Requests : ApplyOverlapping(a)
    \/ \E a \in Requests : ApplyMove(a)
    \/ \E a \in Requests : ApplyFinish(a)

SpecOverlap == InitOverlap /\ [][NextOverlap]_vars

\* request a is in its loop between two of its moves
BetweenMoves(f) == AtMove(f) /\ f.i > 1

\* request a executes a move of its loop in this step
ExecutesMove(a) == AtMove(apply[a]) /\ apply'[a] # apply[a]

\* C16: apply requests on the same sandbox root are serialized.  When two
\* apply requests overlap, no move of one is executed between two moves of
\* the other, and no move of the plan both have read is executed by both.
C16_Serialized ==
    [][\A a, b \in Requests :
         (a # b /\ ExecutesMove(b)) =>
            /\ ~BetweenMoves(apply[a])
            /\ ~(/\ apply[a].pc = "moving"
                 /\ apply[a].plan = apply[b].plan
                 /\ apply[a].i > apply[b].i)]_vars


\* C17 as stated: an apply request clears only the plan it executed.  When an
\* organize request stores a new plan while an apply request is executing an
\* older one, the new plan is still the current plan after the apply returns.
C17_ClearsOnlyOwnPlan ==
    \A a \in Requests :
        apply[a].pc = "done" => apply[a].replaced \in {apply[a].plan, EmptyPlan}

\* C17, amended: an apply request that returns successfully replaces whatever
\* plan is current at that moment by the empty plan, so a plan that an
\* organize request stored while the apply was executing an older one is
\* discarded unapplied (the last write wins); an apply request that fails
\* leaves the stored plan in place.
C17_LastWriteWins ==
    [][\A a \in Requests :
         /\ (apply[a].pc = "moving" /\ apply'[a].pc = "done")
               => (currentPlan' = EmptyPlan /\ apply'[a].replaced = currentPlan)
         /\ (apply[a].pc = "moving" /\ apply'[a].pc = "failed")
               => currentPlan' = currentPlan]_vars

\* C17 witness: an apply has returned successfully and has discarded a plan
\* with moves that is not the plan it executed
C17_Witness ==
    \E a \in Requests :
        /\ apply[a].pc = "done"
        /\ apply[a].replaced # apply[a].plan
        /\ apply[a].replaced.moves # <<>>
        /\ currentPlan = EmptyPlan

----------------------------------------------------------------------------
(* Requests that fail: an organizer that answers with odd plans and a      *)
(* template that cannot be read                                            *)

\* plans such an organizer answers with: one that moves the sandbox root
\* itself away and then fails, one whose move has an empty destination, and
\* one whose two moves have the same source
OddPlans ==
    {<<MoveOp("/", "/../fs2/r", "r"), MoveOp("/demo/b.ts", "", "r")>>,
     <<MoveOp("/demo/b.ts", "", "r")>>,
     <<MoveOp("/demo/a.md", "/demo/z.md", "r"), MoveOp("/demo/a.md", "/demo/y.md", "r")>>}

OddReplies ==
    {Reply("error", FALSE, <<>>, "")}
    \cup { Reply("ok", TRUE, ms, "") : ms \in OddPlans }

InitFaults ==
    /\ disk \in { ensureDemoFilesystem(StartDisk(S)) : S \in SUBSET FileSlots }
    /\ currentPlan = EmptyPlan
    /\ env = [llmBase |-> TRUE, apiKey |-> FALSE]
    /\ apply = Idle
    /\ resp = NoResp
    /\ probe = NoProbe

\* POST /organize, answered by that organizer
OrganizeOdd(instructions) ==
    /\ NoRequestInFlight
    /\ Synthesize(instructions, OddReplies)
    /\ apply' = Idle
    /\ UNCHANGED <<disk, env, probe>>

\* a reset handler that clears the plan before it restores the sandbox
ResetForgetting ==
    /\ NoRequestInFlight
    /\ disk' = resetInterrupted(disk)
    /\ currentPlan' = EmptyPlan
    /\ resp' = Failure("reset", NotFound)
    /\ apply' = Idle
    /\ UNCHANGED <<env, probe>>

\* POST /reset when the template cannot be read from the working directory
\* of the server: fse.copy throws and the handler answers 500
ResetFailing ==
    /\ NoRequestInFlight
    /\ disk' = resetInterrupted(disk)
    /\ currentPlan' = currentPlan
    /\ resp' = Failure("reset", NotFound)
    /\ apply' = Idle
    /\ UNCHANGED <<env, probe>>

NextFaults ==
    \/ \E param0 \in BrowseParams : Browse(param0)
    \/ \E instructions \in Instructions : OrganizeOdd(instructions)
    \/ Preview
    \/ \E a \in ApplyIds : ApplyStart(a)
    \/ \E a \in ApplyIds : ApplyMove(a)
    \/ \E a \in ApplyIds : ApplyFinish(a)
    \/ \E now \in Nows : DetectGarbage(now)
    \/ Reset
    \/ ResetFailing

SpecFaults == InitFaults /\ [][NextFaults]_vars

----------------------------------------------------------------------------
(* Failed requests and the Plan Store *)

\* C18: a failed request leaves the Plan Store unchanged.  When an apply,
\* organize or reset request fails, the current plan is exactly the plan that
\* was current when the request started; after a failed apply the failed plan
\* is still the current plan.
C18_FailureKeepsPlan ==
    [][/\ \A a \in ApplyIds :
             (apply[a].pc = "moving" /\ apply'[a].pc = "failed")
                => (currentPlan' = currentPlan /\ currentPlan' = apply[a].plan)
       /\ (resp' # resp /\ ~resp'.ok /\ resp'.kind \in {"organize", "reset"})
             => currentPlan' = currentPlan]_vars

\* C18 witness: an apply has failed and the plan it was executing is still
\* the current plan
C18_Witness ==
    \E a \in ApplyIds :
        /\ apply[a].pc = "failed"
        /\ resp.kind = "apply" /\ ~resp.ok
        /\ apply[a].plan.moves # <<>>
        /\ currentPlan = apply[a].plan

----------------------------------------------------------------------------
(* Heuristic classifier *)

\* the category of an extension, as the specification lists them
CategoryOf(ext) ==
    CASE ext \in {"ts", "tsx", "js", "jsx", "py", "go", "java", "rb"} -> "Code"
      [] ext \in {"md", "txt", "pdf", "doc", "docx"} -> "Documents"
      [] ext \in {"png", "jpg", "jpeg", "gif", "webp", "svg"} -> "Images"
      [] ext \in {"zip", "tar", "gz", "rar", "7z"} -> "Archives"
      [] ext \in {"csv", "json", "xlsx"} -> "Data"
      [] OTHER -> "Misc"

\* the plan answered by organize is the heuristic plan whose targets are
\* base/<category>/<name>, base being a path relative to the sandbox root:
\* one move for each file that is not at its target, none for one that is,
\* and each `to` resolves to the target below the sandbox root
HeuristicPlanWithBase(base) ==
    (resp.kind = "organize" /\ resp.ok /\ NoTierConfigured /\ apply = Idle) =>
        LET fs == SnapshotFiles(disk)
            ms == resp.body.plan.moves
        IN  /\ \A i \in 1..Len(fs) :
                  LET target == base \o "/" \o CategoryOf(fs[i].ext) \o "/" \o fs[i].name
                      hits   == { k \in 1..Len(ms) : ms[k].from = fs[i].path }
                  IN  IF fs[i].path # target
                      THEN /\ Cardinality(hits) = 1
                           /\ \A k \in hits :
                                 /\ ms[k].to = target
                                 /\ sanitizePath(ms[k].to) = Ok(DEMO_FS_PATH \o target)
                      ELSE hits = {}
            /\ \A k \in 1..Len(ms) : \E i \in 1..Len(fs) : ms[k].from = fs[i].path

\* C19 as stated: the target of every file is <sandboxRoot>/<category>/<name>,
\* the category depending only on the extension and not on the instruction
\* text; the plan has exactly one move for each file whose path differs from
\* its target and none for a file at its target; the move's `to` resolves to
\* that location directly under the sandbox root.
C19_TargetUnderRoot == HeuristicPlanWithBase("")

\* C19, amended: the target of every file is /demo/<category>/<name> relative
\* to the sandbox root, the category depending only on the extension and not
\* on the instruction text; the plan has exactly one move for each file whose
\* path differs from its target and none for a file at its target; the move's
\* `to` resolves to <sandboxRoot>/demo/<category>/<name>.
C19_TargetUnderDemo == HeuristicPlanWithBase("/demo")

\* C19 witness: organize has answered with the heuristic plan for a sandbox
\* holding a file that is at its target and files of other categories that
\* are not
C19_Witness ==
    /\ resp.kind = "organize" /\ resp.ok /\ NoTierConfigured
    /\ IsFile(disk, "/fs/demo/Code/x.ts")
    /\ IsFile(disk, "/fs/big.iso") /\ IsFile(disk, "/fs/a/notes.txt")
    /\ \A k \in 1..Len(resp.body.plan.moves) :
          resp.body.plan.moves[k].from # "/demo/Code/x.ts"
    /\ \E k \in 1..Len(resp.body.plan.moves) :
          resp.body.plan.moves[k].to = "/demo/Misc/big.iso"

----------------------------------------------------------------------------
(* Plan Previewer *)

\* the `to` of the moves of ms whose `from` is p
TargetsOf(ms, p) == { ms[k].to : k \in { j \in 1..Len(ms) : ms[j].from = p } }

\* the paths the claim allows for a file at p: the `to` of a move from p,
\* and p itself when there is no such move
AnyTarget(ms, p) == IF TargetsOf(ms, p) = {} THEN {p} ELSE TargetsOf(ms, p)

\* the path the code gives a file at p: the `to` of the last move from p, or
\* p itself when there is no such move or that `to` is empty
LastTarget(ms, p) ==
    LET hits == { k \in 1..Len(ms) : ms[k].from = p }
        last == CHOOSE k \in hits : \A j \in hits : j <= k
    IN  IF hits = {} \/ ms[last].to = "" THEN {p} ELSE {ms[last].to}

\* node `after` is node `before` relabelled by the moves ms: a directory is
\* unchanged but for the relabelling of its children, position by position;
\* a file is unchanged but for its path, which is one of AnyTarget, or of
\* LastTarget when lastWins
RECURSIVE Relabelled(_, _, _, _)
Relabelled(ms, before, after, lastWins) ==
    IF before.type = "dir"
    THEN /\ [after EXCEPT !.children = <<>>] = [before EXCEPT !.children = <<>>]
         /\ Len(after.children) = Len(before.children)
         /\ \A k \in 1..Len(before.children) :
               Relabelled(ms, before.children[k], after.children[k], lastWins)
    ELSE /\ after = [before EXCEPT !.path = after.path]
         /\ after.path \in (IF lastWins THEN LastTarget(ms, before.path)
                             ELSE AnyTarget(ms, before.path))

\* C20 as stated: the `after` tree has the same nodes in the same positions
\* as `before`; every directory node is unchanged, every file node whose path
\* is the `from` of a move has its path replaced by that move's `to`, every
\* other file node is unchanged, and no node is added or removed.
C20_ShallowRelabel ==
    (resp.kind = "preview" /\ resp.ok) =>
        Relabelled(resp.body.plan.moves, resp.body.views.before,
                   resp.body.views.after, FALSE)

\* C20, amended: as stated, but a file node whose path is the `from` of
\* several moves gets the `to` of the last of them, and keeps its path when
\* that `to` is the empty string.
C20_ShallowRelabelLast ==
    (resp.kind = "preview" /\ resp.ok) =>
        Relabelled(resp.body.plan.moves, resp.body.views.before,
                   resp.body.views.after, TRUE)

\* C20 witness: a preview of a plan with two moves from the same file has
\* been answered and has relabelled that file
C20_Witness ==
    /\ resp.kind = "preview" /\ resp.ok
    /\ Len(resp.body.plan.moves) = 2
    /\ resp.body.plan.moves[1].from = resp.body.plan.moves[2].from
    /\ resp.body.views.after # resp.body.views.before

====
